---- MODULE Spec2Model ----
(***************************************************************************)
(* A model of pomdtr/deno-embed: the build-time writer that turns a tree   *)
(* of static files into generated modules (EmbedWriter, StaticConverter),  *)
(* the runtime store (Embeds, File) and the HTTP responder (serveDir,      *)
(* serveFile).                                                             *)
(*                                                                         *)
(* Strings are modelled as sequences of tokens.  A token is "/", "." or a  *)
(* fragment of a name that contains neither; the string a sequence stands  *)
(* for is the concatenation of its tokens.  Bytes are integers 0..255.     *)
(***************************************************************************)
EXTENDS Integers, Sequences, FiniteSets, TLC

VARIABLES
    embeds,     \* Embeds.#embeds: the registry object handed to the constructor
    call,       \* the runtime operation performed last, with its arguments
    result,     \* what that operation returned (or that it threw)
    trace,      \* the store/File events of that operation, in order
    fsrc,       \* the buffer a File instance was generated from
    fmeta,      \* the FileMeta the instance was constructed from
    fcontents,  \* File.#contents
    fcachedText,\* File.#cachedText
    fcalls,     \* the bytes()/text() calls in flight on the instance
    fdecomp,    \* how many times decompress() ran for the instance
    fstarted,   \* how many calls were started on the instance
    destDir,    \* EmbedWriter.destDir
    files,      \* EmbedWriter.#files: FilePaths records, keyed by onDisk
    disk,       \* the destination tree: path -> what was written there
    wpc,        \* where StaticConverter.convert() stands
    pending,    \* the walker's entries convert() has not converted yet
    wrun,       \* how many convert() runs were started
    wlast       \* outcome of the writer's last call (returned record or error)

serveVars == <<embeds, call, result, trace>>
fileVars == <<fsrc, fmeta, fcontents, fcachedText, fcalls, fdecomp, fstarted>>
writerVars == <<destDir, files, disk, wpc, pending, wrun, wlast>>
vars == <<serveVars, fileVars, writerVars>>

None == "none"

-----------------------------------------------------------------------------
(* Generic helpers on sequences.                                           *)

Last(s) == s[Len(s)]

Front(s) == SubSeq(s, 1, Len(s) - 1)

RECURSIVE Concat(_)
Concat(ss) == IF ss = <<>> THEN <<>> ELSE Head(ss) \o Concat(Tail(ss))

StartsWith(s, p) == Len(p) <= Len(s) /\ SubSeq(s, 1, Len(p)) = p

EndsWith(s, p) == Len(p) <= Len(s) /\ SubSeq(s, Len(s) - Len(p) + 1, Len(s)) = p

\* All sequences over S of length at most n.
RECURSIVE SeqsUpTo(_, _)
SeqsUpTo(S, n) ==
    IF n = 0 THEN {<<>>}
    ELSE LET shorter == SeqsUpTo(S, n - 1)
         IN  shorter \cup {Append(s, c) : s \in shorter, c \in S}

\* The number of characters of the string a token sequence stands for.
RECURSIVE StrLen(_)
StrLen(p) == IF p = <<>> THEN 0 ELSE Len(Head(p)) + StrLen(Tail(p))

-----------------------------------------------------------------------------
(* jsr:@std/path (posix), as far as the program uses it.                   *)

SEP == "/"
DOT == "."
DotDot == <<DOT, DOT>>

isAbsolute(p) == Len(p) > 0 /\ p[1] = SEP

\* The segments between separators, empty ones included.
RECURSIVE SplitSegs(_, _, _)
SplitSegs(p, cur, acc) ==
    IF p = <<>> THEN Append(acc, cur)
    ELSE IF Head(p) = SEP THEN SplitSegs(Tail(p), <<>>, Append(acc, cur))
    ELSE SplitSegs(Tail(p), Append(cur, Head(p)), acc)

Segments(p) == SplitSegs(p, <<>>, <<>>)

RECURSIVE JoinSegs(_)
JoinSegs(segs) ==
    IF segs = <<>> THEN <<>>
    ELSE IF Len(segs) = 1 THEN segs[1]
    ELSE segs[1] \o <<SEP>> \o JoinSegs(Tail(segs))

\* normalizeString: resolves "." and ".." segments and drops empty ones.
RECURSIVE NormSegs(_, _, _)
NormSegs(segs, allowAboveRoot, stack) ==
    IF segs = <<>> THEN stack
    ELSE LET s == Head(segs)
             rest == Tail(segs)
         IN  IF s = <<>> \/ s = <<DOT>> THEN NormSegs(rest, allowAboveRoot, stack)
             ELSE IF s = DotDot
                  THEN IF stack # <<>> /\ Last(stack) # DotDot
                       THEN NormSegs(rest, allowAboveRoot, Front(stack))
                       ELSE IF allowAboveRoot
                            THEN NormSegs(rest, allowAboveRoot, Append(stack, s))
                            ELSE NormSegs(rest, allowAboveRoot, stack)
                  ELSE NormSegs(rest, allowAboveRoot, Append(stack, s))

normalizeString(p, allowAboveRoot) == JoinSegs(NormSegs(Segments(p), allowAboveRoot, <<>>))

posixNormalize(p) ==
    LET Dotted(n) == IF n = <<>> /\ ~isAbsolute(p) THEN <<DOT>> ELSE n
        Trailing(n) == IF n # <<>> /\ Last(p) = SEP THEN Append(n, SEP) ELSE n
    IN  IF p = <<>> THEN <<DOT>>
        ELSE (IF isAbsolute(p) THEN <<SEP>> ELSE <<>>)
                \o Trailing(Dotted(normalizeString(p, ~isAbsolute(p))))

\* join(a, b): the non-empty arguments joined with "/", then normalized.
join(a, b) ==
    IF a = <<>> /\ b = <<>> THEN <<DOT>>
    ELSE IF a = <<>> THEN posixNormalize(b)
    ELSE IF b = <<>> THEN posixNormalize(a)
    ELSE posixNormalize(a \o <<SEP>> \o b)

\* resolve(base, p) for an absolute base: never ends in a separator.
resolve(base, p) ==
    LET joined == IF p = <<>> THEN base
                  ELSE IF isAbsolute(p) THEN p
                  ELSE base \o <<SEP>> \o p
    IN  <<SEP>> \o normalizeString(joined, FALSE)

\* Drops trailing separators, then the last segment.
RECURSIVE StripTrailingSeps(_)
StripTrailingSeps(p) ==
    IF Len(p) > 1 /\ Last(p) = SEP THEN StripTrailingSeps(Front(p)) ELSE p

RECURSIVE DropLastSeg(_)
DropLastSeg(p) ==
    IF p = <<>> THEN <<>>
    ELSE IF Last(p) = SEP THEN p
    ELSE DropLastSeg(Front(p))

dirname(p) ==
    LET Dir(q, d) ==
            IF d = <<>> THEN (IF isAbsolute(p) THEN <<SEP>> ELSE <<DOT>>)
            ELSE IF q = <<SEP>> THEN <<SEP>>
            ELSE StripTrailingSeps(d)
        Stripped(q) == Dir(q, DropLastSeg(q))
    IN  IF p = <<>> THEN <<DOT>> ELSE Stripped(StripTrailingSeps(p))

\* The last segment of a path without trailing separators.
RECURSIVE LastSeg(_)
LastSeg(p) ==
    IF p = <<>> \/ Last(p) = SEP THEN <<>>
    ELSE Append(LastSeg(Front(p)), Last(p))

\* path.parse(p), for the relative, normalized paths #addFile gives it.
parse(p) ==
    LET Dir(d) == IF d = <<>> THEN <<>> ELSE StripTrailingSeps(d)
    IN  [base |-> LastSeg(p), dir |-> Dir(DropLastSeg(p))]

RECURSIVE CommonPrefixLen(_, _)
CommonPrefixLen(a, b) ==
    IF a = <<>> \/ b = <<>> \/ Head(a) # Head(b) THEN 0
    ELSE 1 + CommonPrefixLen(Tail(a), Tail(b))

\* relative(from, to) for absolute paths.
relative(from, to) ==
    LET Rel(f, t, k) ==
            JoinSegs([i \in 1..(Len(f) - k) |-> DotDot] \o SubSeq(t, k + 1, Len(t)))
        Common(f, t) == Rel(f, t, CommonPrefixLen(f, t))
    IN  Common(NormSegs(Segments(from), FALSE, <<>>), NormSegs(Segments(to), FALSE, <<>>))

\* extname(p): from the last "." of the last segment, unless the name starts there.
RECURSIVE LastDotIndex(_)
LastDotIndex(s) ==
    IF s = <<>> THEN 0
    ELSE IF Last(s) = DOT THEN Len(s)
    ELSE LastDotIndex(Front(s))

extname(p) ==
    LET Ext(b, i) == IF i <= 1 \/ b = DotDot THEN <<>> ELSE SubSeq(b, i, Len(b))
        Base(b) == Ext(b, LastDotIndex(b))
    IN  Base(LastSeg(StripTrailingSeps(p)))

-----------------------------------------------------------------------------
(* Bytes, base64 and the compression codec.                                *)
(*                                                                         *)
(* A base64 character is modelled by its index in the base64 alphabet      *)
(* (0..63); PAD stands for "=" and NL for the line feed.                   *)

PAD == 64
NL == 65

\* The column after which writeFile breaks the base64 text.
WrapColumn == 120

\* writeFile's minCompressionGainBytes.
minCompressionGainBytes == 200

\* Rep(n, v): n bytes of value v.
Rep(n, v) == [i \in 1..n |-> v]

\* encodeBase64: three bytes become four characters, the tail is padded.
encodeBase64(b) ==
    LET n == Len(b)
        byte(x) == IF x <= n THEN b[x] ELSE 0
    IN  [i \in 1..(4 * ((n + 2) \div 3)) |->
            LET k == (i - 1) \div 4
                j == (i - 1) % 4
                b1 == byte(3 * k + 1)
                b2 == byte(3 * k + 2)
                b3 == byte(3 * k + 3)
            IN  IF j = 0 THEN b1 \div 4
                ELSE IF j = 1 THEN (b1 % 4) * 16 + b2 \div 16
                ELSE IF j = 2
                     THEN (IF 3 * k + 2 > n THEN PAD ELSE (b2 % 16) * 4 + b3 \div 64)
                ELSE (IF 3 * k + 3 > n THEN PAD ELSE b3 % 64)]

\* encoded.replaceAll(/.{120}/g, (it) => it + "\n")
WrapLines(e) ==
    LET n == Len(e)
        full == n \div WrapColumn
    IN  [i \in 1..(n + full) |->
            LET blk == (i - 1) \div (WrapColumn + 1)
                off == (i - 1) % (WrapColumn + 1)
            IN  IF off = WrapColumn THEN NL ELSE e[blk * WrapColumn + off + 1]]

\* A variant of atob's first step that keeps the whitespace.
KeepWhitespace(e) == e

\* atob's first step: ASCII whitespace is removed.
StripWhitespace(e) == SelectSeq(e, LAMBDA c : c # NL)

\* atob's second step: a text whose length is a multiple of four loses up to
\* two "=" at its end.
StripPadding(e) ==
    IF Len(e) > 0 /\ Len(e) % 4 = 0 /\ Last(e) = PAD
    THEN IF Last(Front(e)) = PAD THEN Front(Front(e)) ELSE Front(e)
    ELSE e

\* Four characters become three bytes; a tail of two or three characters
\* gives one or two.
DecodeSextets(s) ==
    LET n == Len(s)
        rem == n % 4
        sx(x) == IF x <= n THEN s[x] ELSE 0
    IN  [i \in 1..(3 * (n \div 4) + (IF rem = 2 THEN 1 ELSE IF rem = 3 THEN 2 ELSE 0)) |->
            LET k == (i - 1) \div 3
                j == (i - 1) % 3
                s1 == sx(4 * k + 1)
                s2 == sx(4 * k + 2)
                s3 == sx(4 * k + 3)
                s4 == sx(4 * k + 4)
            IN  IF j = 0 THEN s1 * 4 + s2 \div 16
                ELSE IF j = 1 THEN (s2 % 16) * 16 + s3 \div 4
                ELSE (s3 % 4) * 64 + s4]

\* What decodeBase64 gives for a text atob rejects (it throws).
DecodeError == <<"InvalidCharacterError">>

\* decodeBase64(b64) == atob(b64), byte by byte.
decodeBase64(e) ==
    LET s == StripPadding(StripWhitespace(e))
    IN  IF Len(s) % 4 = 1 \/ \E i \in 1..Len(s) : s[i] \notin 0..63
        THEN DecodeError
        ELSE DecodeSextets(s)

\* The gzip framing: a ten-byte header, and a trailer of CRC-32 (not modelled,
\* zero) and the length of the input modulo 2^32, least significant byte first.
GzipHeader == <<31, 139, 8, 0, 0, 0, 0, 0, 0, 3>>

GzipTrailer(b) ==
    <<0, 0, 0, 0,
      Len(b) % 256, (Len(b) \div 256) % 256, (Len(b) \div 65536) % 256,
      (Len(b) \div 16777216) % 256>>

\* The longest run a pair of the payload can hold.
MaxRun == 255

\* A run of n bytes v as pairs <<length, byte>>, each of at most MaxRun.
RunPairs(n, v) ==
    LET pairs == (n + MaxRun - 1) \div MaxRun
    IN  [x \in 1..(2 * pairs) |->
            IF x % 2 = 0 THEN v
            ELSE IF (x + 1) \div 2 < pairs THEN MaxRun
            ELSE n - MaxRun * (pairs - 1)]

\* Where the run of equal bytes that starts at i ends.
RunEnd(b, i) ==
    LET changes == {j \in (i + 1)..Len(b) : b[j] # b[j - 1]}
    IN  IF changes = {} THEN Len(b)
        ELSE (CHOOSE j \in changes : \A h \in changes : j <= h) - 1

\* The payload: the runs of equal bytes from position i on.
RECURSIVE DeflateFrom(_, _)
DeflateFrom(b, i) ==
    IF i > Len(b) THEN <<>>
    ELSE LET e == RunEnd(b, i)
         IN  RunPairs(e - i + 1, b[i]) \o DeflateFrom(b, e + 1)

Deflate(b) == DeflateFrom(b, 1)

RECURSIVE Inflate(_)
Inflate(c) ==
    IF Len(c) < 2 THEN <<>>
    ELSE Rep(c[1], c[2]) \o Inflate(SubSeq(c, 3, Len(c)))

\* compress(data, "gzip"): a lossless codec with a fixed framing overhead
\* stands for CompressionStream.
compress(data) == GzipHeader \o Deflate(data) \o GzipTrailer(data)

\* decompress(data, "gzip")
decompress(c) ==
    Inflate(SubSeq(c, Len(GzipHeader) + 1, Len(c) - Len(GzipTrailer(<<>>))))

\* TextDecoder.decode for bytes that are ASCII or never valid in UTF-8: an
\* ASCII byte is its own code point, any other becomes U+FFFD.
TextDecode(b) == [i \in 1..Len(b) |-> IF b[i] < 128 THEN b[i] ELSE 65533]

-----------------------------------------------------------------------------
(* EmbedWriter.writeFile: what it emits for a buffer.                      *)

\* A variant of writeFile that compresses only when the gain exceeds the
\* threshold.
EmitMetaAboveGain(data) ==
    LET Emit(chosen, compressed) ==
            [size |-> Len(data),
             compression |-> IF chosen THEN "gzip" ELSE None,
             encoded |-> <<NL>> \o WrapLines(encodeBase64(IF chosen THEN compressed
                                                          ELSE data))]
        Choose(compressed) ==
            Emit(Len(data) - Len(compressed) > minCompressionGainBytes, compressed)
    IN  Choose(compress(data))

\* The object the generated module exports: writeFile's outLines.
EmitMeta(data) ==
    LET Emit(chosen, compressed) ==
            [size |-> Len(data),
             compression |-> IF chosen THEN "gzip" ELSE None,
             encoded |-> <<NL>> \o WrapLines(encodeBase64(IF chosen THEN compressed
                                                          ELSE data))]
        Choose(compressed) ==
            Emit(Len(data) - Len(compressed) >= minCompressionGainBytes, compressed)
    IN  Choose(compress(data))

-----------------------------------------------------------------------------
(* class File                                                              *)

\* new File(meta)
NewFileContents(meta) ==
    [bytes |-> decodeBase64(meta.encoded), compression |-> meta.compression]

\* bytes() run to completion with no other call in between.
BytesOf(contents) ==
    IF contents.compression # None THEN decompress(contents.bytes) ELSE contents.bytes

-----------------------------------------------------------------------------
(* class Embeds: the registry and its lookups.                             *)
(*                                                                         *)
(* The registry is the object literal of the generated module: its own     *)
(* properties map a relative path to an importer, and like every object    *)
(* literal it inherits the properties of Object.prototype.  An optional    *)
(* value is modelled as a sequence of length zero or one.                  *)

\* Inherited methods that return when called with no receiver and no
\* argument; what they return has no `default` property.
InheritedReturning == {<<"constructor">>, <<"toString">>, <<"isPrototypeOf">>}

\* Inherited methods that throw a TypeError when called that way.
InheritedThrowing == {<<"valueOf">>, <<"hasOwnProperty">>, <<"toLocaleString">>}

\* Inherited properties that are truthy and not callable.
InheritedNotCallable == {<<"__proto__">>}

InheritedProps == InheritedReturning \cup InheritedThrowing \cup InheritedNotCallable

\* The keys whose importer rejects when called, and the error it rejects
\* with: a FileImporter is any function that returns a promise.
ImporterRejects == [k \in {<<"gone">>} |-> "NotFound"]

Rejected(p) == [kind |-> "throw", error |-> ImporterRejects[p]]

\* this.#embeds[filePath]
GetProp(reg, p) ==
    IF p \in DOMAIN reg
    THEN (IF p \in DOMAIN ImporterRejects THEN "rejects" ELSE "importer")
    ELSE IF p \in InheritedReturning THEN "returns"
    ELSE IF p \in InheritedThrowing THEN "throws"
    ELSE IF p \in InheritedNotCallable THEN "notCallable"
    ELSE "undefined"

\* Embeds.list(): Object.keys, the own properties.
list(reg) == DOMAIN reg

Thrown == [kind |-> "throw", error |-> "TypeError"]
Null == [kind |-> "null"]
Undefined == [kind |-> "undefined"]

\* Embeds.load(filePath): no check of the importer.
load(reg, p) ==
    LET importer == GetProp(reg, p)
    IN  IF importer = "importer"
        THEN [kind |-> "file", contents |-> NewFileContents(reg[p]), size |-> reg[p].size]
        ELSE IF importer = "rejects" THEN Rejected(p)
        ELSE Thrown

\* Embeds.stat(filePath)
stat(reg, p) ==
    LET importer == GetProp(reg, p)
    IN  IF importer = "undefined" THEN Null
        ELSE IF importer = "importer" THEN [kind |-> "meta", meta |-> reg[p]]
        ELSE IF importer = "returns" THEN Undefined
        ELSE IF importer = "rejects" THEN Rejected(p)
        ELSE Thrown

\* Embeds.get(filePath)
get(reg, p) ==
    LET importer == GetProp(reg, p)
    IN  IF importer = "undefined" THEN Null
        ELSE IF importer = "importer"
             THEN [kind |-> "file", contents |-> NewFileContents(reg[p]), size |-> reg[p].size]
        ELSE IF importer = "rejects" THEN Rejected(p)
        ELSE Thrown

-----------------------------------------------------------------------------
(* Requests, responses and headers.                                        *)
(*                                                                         *)
(* An entity tag is [weak, tag]; the stored eTag with tag "" stands for    *)
(* an absent (or empty, equally falsy) eTag.  Times are milliseconds.      *)

NoETag == [weak |-> FALSE, tag |-> ""]

\* The `if-none-match` header: absent (null), the empty string, "*", or a
\* comma-separated list of entity tags.
INMAbsent == [kind |-> "absent", tags |-> {}]
INMEmpty == [kind |-> "empty", tags |-> {}]
INMStar == [kind |-> "star", tags |-> {}]
INMList(tags) == [kind |-> "list", tags |-> tags]

\* The `if-modified-since` header: absent, empty, a text Date cannot parse,
\* or a date.
IMSAbsent == [kind |-> "absent", ms |-> 0]
IMSEmpty == [kind |-> "empty", ms |-> 0]
IMSInvalid == [kind |-> "invalid", ms |-> 0]
IMSDate(ms) == [kind |-> "date", ms |-> ms]

\* ifNoneMatch(value, etag) of @std/http: FALSE when the value matches the
\* tag, by weak comparison.
ifNoneMatch(value, etag) ==
    IF value.kind \in {"absent", "empty"} \/ etag.tag = "" THEN TRUE
    ELSE IF value.kind = "star" THEN FALSE
    ELSE ~(\E t \in value.tags : t.tag = etag.tag)

\* Date.prototype.toUTCString keeps whole seconds: the instant its text denotes.
toUTCString(ms) == (ms \div 1000) * 1000

\* The fudge factor of the if-modified-since comparison.
ModifiedSinceSlackMs == 1000

SetHeader(h, n, v) == [x \in DOMAIN h \cup {n} |-> IF x = n THEN <<v>> ELSE h[x]]

\* A variant of append that overwrites the values already there.
AppendHeaderReplacing(h, n, v) == [x \in DOMAIN h \cup {n} |-> IF x = n THEN <<v>> ELSE h[x]]

\* Headers.append(n, v)
AppendHeader(h, n, v) ==
    [x \in DOMAIN h \cup {n} |->
        IF x = n THEN (IF n \in DOMAIN h THEN Append(h[n], v) ELSE <<v>>) ELSE h[x]]

\* STATUS_TEXT
StatusText(status) ==
    CASE status = 200 -> "OK"
      [] status = 301 -> "Moved Permanently"
      [] status = 304 -> "Not Modified"
      [] status = 400 -> "Bad Request"
      [] status = 404 -> "Not Found"
      [] status = 500 -> "Internal Server Error"

\* createStandardResponse(status): the status text as the body.
createStandardResponse(status) ==
    [status |-> status, bodyKind |-> "text", body |-> <<StatusText(status)>>,
     headers |-> [n \in {"content-type"} |-> <<"text/plain;charset=UTF-8">>]]

\* createBaseHeaders()
createBaseHeaders == [n \in {"server", "accept-ranges"} |->
                        IF n = "server" THEN <<"deno">> ELSE <<"bytes">>]

\* contentType(extname): the media type of the extensions the model uses.
contentType(ext) ==
    IF ext = <<DOT, "html">> THEN <<"text/html; charset=UTF-8">>
    ELSE IF ext = <<DOT, "txt">> THEN <<"text/plain; charset=UTF-8">>
    ELSE <<>>

-----------------------------------------------------------------------------
(* serveFile                                                               *)

\* A variant of the condition in which if-modified-since is consulted even
\* when if-none-match is present.
NotModifiedEitherHeader(req, meta) ==
    /\ meta.eTag.tag # "" \/ meta.mtime # <<>>
    /\ \/ ~ifNoneMatch(req.inm, meta.eTag)
       \/ /\ meta.mtime # <<>>
          /\ req.ims.kind = "date"
          /\ meta.mtime[1] < req.ims.ms + ModifiedSinceSlackMs

\* A variant of the condition whose time comparison is not strict.
NotModifiedInclusive(req, meta) ==
    /\ meta.eTag.tag # "" \/ meta.mtime # <<>>
    /\ \/ ~ifNoneMatch(req.inm, meta.eTag)
       \/ /\ req.inm.kind = "absent"
          /\ meta.mtime # <<>>
          /\ req.ims.kind = "date"
          /\ meta.mtime[1] <= req.ims.ms + ModifiedSinceSlackMs

\* The condition under which serveFile answers 304.
NotModified(req, meta) ==
    /\ meta.eTag.tag # "" \/ meta.mtime # <<>>
    /\ \/ ~ifNoneMatch(req.inm, meta.eTag)
       \/ /\ req.inm.kind = "absent"
          /\ meta.mtime # <<>>
          /\ req.ims.kind = "date"
          /\ meta.mtime[1] < req.ims.ms + ModifiedSinceSlackMs

\* The headers serveFile has set when it evaluates the condition.
ValidatorHeaders(meta) ==
    LET h0 == createBaseHeaders
        h1 == IF meta.atime # <<>> THEN SetHeader(h0, "date", toUTCString(meta.atime[1])) ELSE h0
        h2 == IF meta.mtime # <<>>
              THEN SetHeader(h1, "last-modified", toUTCString(meta.mtime[1])) ELSE h1
    IN  IF meta.eTag.tag # "" THEN SetHeader(h2, "etag", meta.eTag) ELSE h2

\* The headers of a 200 response.
BodyHeaders(meta, filePath) ==
    LET h == ValidatorHeaders(meta)
        ct == contentType(extname(filePath))
        h1 == IF ct # <<>> THEN SetHeader(h, "content-type", ct[1]) ELSE h
    IN  SetHeader(h1, "content-length", meta.size)

Returned(resp, events) == [threw |-> FALSE, error |-> "", resp |-> resp, trace |-> events]

Threw(error, events) ==
    [threw |-> TRUE, error |-> error, resp |-> createStandardResponse(500), trace |-> events]

\* A variant of serveFile that gets the file before it evaluates the
\* condition.
serveFileEager(reg, req, filePath, optMeta) ==
    LET Answer(st, file, ev1) ==
            IF file.kind = "throw" THEN Threw(file.error, ev1)
            ELSE IF file.kind # "file" THEN Returned(createStandardResponse(404), ev1)
            ELSE IF NotModified(req, st.meta)
                 THEN Returned([status |-> 304, bodyKind |-> "null", body |-> <<>>,
                                headers |-> ValidatorHeaders(st.meta)],
                               ev1 \o <<"newFile">>)
            ELSE Returned(
                   [status |-> 200, bodyKind |-> "bytes",
                    body |-> BytesOf(file.contents),
                    headers |-> BodyHeaders(st.meta, filePath)],
                   ev1 \o <<"newFile">>
                       \o (IF file.contents.compression # None
                           THEN <<"decompress">> ELSE <<>>))
        Conditional(st, ev0) ==
            IF st.kind = "throw" THEN Threw(st.error, ev0)
            ELSE IF st.kind # "meta" THEN Returned(createStandardResponse(404), ev0)
            ELSE Answer(st, get(reg, filePath), Append(ev0, "get"))
    IN  IF optMeta # <<>> THEN Conditional([kind |-> "meta", meta |-> optMeta[1]], <<>>)
        ELSE Conditional(stat(reg, filePath), <<"stat">>)

\* serveFile(embeds, req, filePath, {fileMeta}): optMeta is options.fileMeta.
serveFile(reg, req, filePath, optMeta) ==
    LET Body(st, file, ev1) ==
            IF file.kind = "throw" THEN Threw(file.error, ev1)
            ELSE IF file.kind # "file" THEN Returned(createStandardResponse(404), ev1)
            ELSE Returned(
                   [status |-> 200, bodyKind |-> "bytes",
                    body |-> BytesOf(file.contents),
                    headers |-> BodyHeaders(st.meta, filePath)],
                   ev1 \o <<"newFile">>
                       \o (IF file.contents.compression # None
                           THEN <<"decompress">> ELSE <<>>))
        Conditional(st, ev0) ==
            IF st.kind = "throw" THEN Threw(st.error, ev0)
            ELSE IF st.kind # "meta" THEN Returned(createStandardResponse(404), ev0)
            ELSE IF NotModified(req, st.meta)
                 THEN Returned([status |-> 304, bodyKind |-> "null", body |-> <<>>,
                                headers |-> ValidatorHeaders(st.meta)], ev0)
            ELSE Body(st, get(reg, filePath), Append(ev0, "get"))
    IN  IF optMeta # <<>> THEN Conditional([kind |-> "meta", meta |-> optMeta[1]], <<>>)
        ELSE Conditional(stat(reg, filePath), <<"stat">>)

-----------------------------------------------------------------------------
(* serveDir                                                                *)

\* Tokens of a request path that stand for a percent-escape.
EscapedSep == "%2F"
BadEscape == "%"

\* decodeURIComponent: throws on a malformed escape.
Malformed(raw) == \E i \in 1..Len(raw) : raw[i] = BadEscape

decodeURIComponent(raw) == [i \in 1..Len(raw) |-> IF raw[i] = EscapedSep THEN SEP ELSE raw[i]]

\* String.prototype.replace(pattern, ""): the first occurrence is removed.
ReplaceFirst(s, pat) ==
    LET hits == {i \in 1..(Len(s) - Len(pat) + 1) : SubSeq(s, i, i + Len(pat) - 1) = pat}
    IN  IF pat = <<>> \/ hits = {} THEN s
        ELSE LET i == CHOOSE h \in hits : \A g \in hits : h <= g
             IN  SubSeq(s, 1, i - 1) \o SubSeq(s, i + Len(pat), Len(s))

IndexHtml == <<"index", DOT, "html">>

\* A variant of the lookup path that leaves a directory path as it is.
LookupPathAsGiven(normalizedPath, opts) ==
    join(IF opts.fsRoot # <<>> THEN opts.fsRoot ELSE <<DOT>>,
         IF opts.urlRoot # <<>> THEN ReplaceFirst(normalizedPath, opts.urlRoot)
         ELSE normalizedPath)

\* The path createServeDirResponse looks up, from the normalized path.
LookupPath(normalizedPath, opts) ==
    LET WithIndex(stripped) ==
            IF EndsWith(stripped, <<SEP>>) THEN stripped \o IndexHtml
            ELSE IF stripped = <<SEP>> THEN <<SEP>> \o IndexHtml
            ELSE stripped
    IN  join(IF opts.fsRoot # <<>> THEN opts.fsRoot ELSE <<DOT>>,
             WithIndex(IF opts.urlRoot # <<>>
                       THEN ReplaceFirst(normalizedPath, opts.urlRoot)
                       ELSE normalizedPath))

\* Whether the urlRoot check lets the normalized path through.
UnderUrlRoot(normalizedPath, opts) ==
    opts.urlRoot = <<>> \/ StartsWith(normalizedPath, <<SEP>> \o opts.urlRoot)

Redirect(location) ==
    [status |-> 301, bodyKind |-> "null", body |-> <<>>,
     headers |-> [n \in {"location"} |-> <<location>>]]

\* createServeDirResponse once the path is looked up: stat, then serveFile
\* with the record.
ServeLookedUp(reg, req, fsPath, fileMeta) ==
    IF fileMeta.kind = "throw" THEN Threw(fileMeta.error, <<"stat">>)
    ELSE [serveFile(reg, req, fsPath,
                    IF fileMeta.kind = "meta" THEN <<fileMeta.meta>> ELSE <<>>)
            EXCEPT !.trace = <<"stat">> \o @]

\* A variant of createServeDirResponse that redirects before it checks urlRoot.
ServeNormalizedRedirectFirst(reg, req, opts, decodedUrl, normalizedPath) ==
    IF normalizedPath # decodedUrl
    THEN Returned(Redirect(normalizedPath), <<>>)
    ELSE IF ~UnderUrlRoot(normalizedPath, opts)
    THEN Returned(createStandardResponse(404), <<>>)
    ELSE ServeLookedUp(reg, req, LookupPath(normalizedPath, opts),
                       stat(reg, LookupPath(normalizedPath, opts)))

\* createServeDirResponse from the decoded and the normalized path.
ServeNormalized(reg, req, opts, decodedUrl, normalizedPath) ==
    IF ~UnderUrlRoot(normalizedPath, opts)
    THEN Returned(createStandardResponse(404), <<>>)
    ELSE IF normalizedPath # decodedUrl
    THEN Returned(Redirect(normalizedPath), <<>>)
    ELSE ServeLookedUp(reg, req, LookupPath(normalizedPath, opts),
                       stat(reg, LookupPath(normalizedPath, opts)))

createServeDirResponse(reg, req, opts) ==
    IF Malformed(req.path) THEN Threw("URIError", <<>>)
    ELSE ServeNormalized(reg, req, opts, decodeURIComponent(req.path),
                         posixNormalize(decodeURIComponent(req.path)))

\* A variant of serveFallback that answers 500 for every error.
serveFallbackAlways500(error) == createStandardResponse(500)

\* serveFallback(error)
serveFallback(error) ==
    IF error = "URIError" THEN createStandardResponse(400)
    ELSE IF error = "NotFound" THEN createStandardResponse(404)
    ELSE createStandardResponse(500)

isRedirectStatus(status) == status \in {301, 302, 303, 307, 308}

RECURSIVE AppendAll(_, _)
AppendAll(h, pairs) ==
    IF pairs = <<>> THEN h
    ELSE AppendAll(AppendHeader(h, Head(pairs)[1], Head(pairs)[2]), Tail(pairs))

CorsHeaders ==
    <<<<"access-control-allow-origin", "*">>,
      <<"access-control-allow-headers",
        "Origin, X-Requested-With, Content-Type, Accept, Range">>>>

\* The headers serveDir adds: CORS and the configured ones, unless the
\* response is a redirect.
DecorateResponse(response, opts) ==
    [response EXCEPT !.headers =
        IF isRedirectStatus(response.status) THEN @
        ELSE AppendAll(IF opts.enableCors THEN AppendAll(@, CorsHeaders) ELSE @,
                       opts.headers)]

\* new Headers(init) throws a TypeError when a name is no header name.
HeadersRejected(init) == \E i \in 1..Len(init) : init[i][1] = "bad name"

\* serveDir's try/catch around createServeDirResponse's outcome r, and the
\* headers added after it, outside the try.
CatchServeDir(r, opts) ==
    LET Decorate(response) ==
            IF ~isRedirectStatus(response.status) /\ HeadersRejected(opts.headers)
            THEN Threw("TypeError", r.trace)
            ELSE Returned(DecorateResponse(response, opts), r.trace)
    IN  Decorate(IF r.threw THEN serveFallback(r.error) ELSE r.resp)

\* serveDir(embeds, req, opts)
serveDir(reg, req, opts) == CatchServeDir(createServeDirResponse(reg, req, opts), opts)

-----------------------------------------------------------------------------
(* The runtime's inputs.                                                   *)

\* The longest generated request path, in tokens after the leading "/".
MaxPathLen == 3

\* The files of the registries: what each was generated from.
FileData ==
    [k \in {<<"index", DOT, "html">>, <<"foo">>, <<"pub">>, <<"foo", SEP, "pub">>,
            <<"pub", SEP, "foo">>, <<"pub", SEP, "index", DOT, "html">>, <<"gone">>} |->
        CASE k = <<"index", DOT, "html">> -> <<60, 104, 62>>
          [] k = <<"foo">> -> <<1, 2, 3, 4>>
          [] k = <<"pub">> -> <<>>
          [] k = <<"foo", SEP, "pub">> -> <<255>>
          [] k = <<"pub", SEP, "foo">> -> Rep(220, 7)
          [] k = <<"pub", SEP, "index", DOT, "html">> -> <<60, 62>>
          [] k = <<"gone">> -> <<>>]

Tag(t) == [weak |-> FALSE, tag |-> t]
WeakTag(t) == [weak |-> TRUE, tag |-> t]

\* A FileMeta: what writeFile emits, and the validators the type allows.
Meta(data, eTag, mtime, atime) ==
    LET With(m) == [size |-> m.size, compression |-> m.compression, encoded |-> m.encoded,
                    eTag |-> eTag, mtime |-> mtime, atime |-> atime]
    IN  With(EmitMeta(data))

\* A registry whose records carry validators.
RegistryTagged ==
    [k \in DOMAIN FileData |->
        CASE k = <<"index", DOT, "html">> -> Meta(FileData[k], Tag("v1"), <<2000>>, <<>>)
          [] k = <<"foo">> -> Meta(FileData[k], Tag("v2"), <<2500>>, <<5500>>)
          [] k = <<"pub">> -> Meta(FileData[k], NoETag, <<2000>>, <<>>)
          [] k = <<"foo", SEP, "pub">> -> Meta(FileData[k], WeakTag("v3"), <<>>, <<>>)
          [] k = <<"pub", SEP, "foo">> -> Meta(FileData[k], NoETag, <<>>, <<>>)
          [] k = <<"pub", SEP, "index", DOT, "html">> ->
                Meta(FileData[k], Tag("v1"), <<3000>>, <<>>)
          [] k = <<"gone">> -> Meta(FileData[k], NoETag, <<>>, <<>>)]

\* A registry of records as writeFile emits them: no validators.
RegistryPlain == [k \in DOMAIN FileData |-> Meta(FileData[k], NoETag, <<>>, <<>>)]

Registries == {RegistryTagged, RegistryPlain}

\* Request paths as the URL parser gives them: a leading "/", no "." or ".."
\* segment.
PathTokens == {SEP, DOT, "foo", "pub"}

IsUrlPath(p) ==
    /\ isAbsolute(p)
    /\ \A i \in 1..Len(Segments(p)) : Segments(p)[i] \notin {<<DOT>>, DotDot}

ExtraPaths ==
    {<<SEP, "foo", SEP, SEP, "pub">>,
     <<SEP, "pub", SEP, "foo", SEP, SEP>>,
     <<SEP, "pub", SEP, "index", DOT, "html">>,
     <<SEP, "index", DOT, "html">>,
     <<SEP, "foo", EscapedSep, DOT, DOT, EscapedSep, "pub">>,
     <<SEP, "foo", EscapedSep, "pub">>,
     <<SEP, "foo", BadEscape>>,
     <<SEP, "nope">>,
     <<SEP, "gone">>,
     <<SEP, "constructor">>,
     <<SEP, "valueOf">>,
     <<SEP, "__proto__">>,
     <<SEP, "pub", SEP, "valueOf">>}

RequestPaths ==
    {p \in {<<SEP>> \o q : q \in SeqsUpTo(PathTokens, MaxPathLen)} : IsUrlPath(p)}
        \cup ExtraPaths

FileINMs ==
    {INMAbsent, INMEmpty, INMStar, INMList({Tag("v1")}), INMList({Tag("v2")}),
     INMList({WeakTag("v1")}), INMList({Tag("v3")}), INMList({Tag("zz")}),
     INMList({Tag("zz"), Tag("v2")})}

FileIMSs ==
    {IMSAbsent, IMSEmpty, IMSInvalid} \cup
    {IMSDate(t) : t \in {0, 999, 1000, 1001, 1499, 1500, 1501, 2000, 2500, 4000}}

DirINMs == {INMAbsent, INMList({Tag("v1")}), INMList({Tag("zz")})}

DirIMSs == {IMSAbsent, IMSDate(1000), IMSDate(3000)}

Requests(paths, inms, imss) ==
    {[path |-> p, inm |-> n, ims |-> m] : p \in paths, n \in inms, m \in imss}

\* The requests handed to serveDir, and to serveFile directly.
DirRequests == Requests(RequestPaths, DirINMs, DirIMSs)

FileRequests == Requests({<<SEP>>}, FileINMs, FileIMSs)

\* The extra headers of the options: none, two that Headers accepts (one of
\* a name every response built here already has or may have), and one whose
\* name Headers rejects.
ExtraHeaders ==
    {<<>>,
     <<<<"x-extra", "1">>, <<"content-type", "text/x-extra">>>>,
     <<<<"bad name", "1">>>>}

ServeDirOptions ==
    {[fsRoot |-> f, urlRoot |-> u, enableCors |-> c, headers |-> h] :
        f \in {<<>>, <<"pub">>}, u \in {<<>>, <<"pub">>}, c \in BOOLEAN, h \in ExtraHeaders}

\* The paths handed to the store and to serveFile directly.
LookupPaths ==
    DOMAIN FileData \cup InheritedProps \cup {<<"nope">>, <<>>, <<SEP, "foo">>}

NoCall == [op |-> "none"]

-----------------------------------------------------------------------------
(* The runtime: one operation on the store per behaviour (requests share   *)
(* no mutable state).                                                      *)

InitServe ==
    /\ embeds \in Registries
    /\ call = NoCall
    /\ result = Null
    /\ trace = <<>>

\* embeds.serve(req, options) == serveDir(embeds, req, options)
ServeDir ==
    /\ call = NoCall
    /\ \E req \in DirRequests, opts \in ServeDirOptions :
          LET Apply(r) ==
                  /\ call' = [op |-> "serveDir", req |-> req, opts |-> opts]
                  /\ result' = IF r.threw THEN Thrown ELSE r.resp
                  /\ trace' = r.trace
          IN  Apply(serveDir(embeds, req, opts))
    /\ UNCHANGED <<embeds, fileVars, writerVars>>

\* serveFile called directly: with no options, or with the record stat gave.
ServeFile ==
    /\ call = NoCall
    /\ \E req \in FileRequests, filePath \in LookupPaths, withMeta \in BOOLEAN :
          /\ withMeta => filePath \in DOMAIN embeds
          /\ LET Apply(optMeta, r) ==
                     /\ call' = [op |-> "serveFile", req |-> req, filePath |-> filePath,
                                 optMeta |-> optMeta]
                     /\ result' = IF r.threw THEN Thrown ELSE r.resp
                     /\ trace' = r.trace
                 With(optMeta) == Apply(optMeta, serveFile(embeds, req, filePath, optMeta))
             IN  With(IF withMeta THEN <<embeds[filePath]>> ELSE <<>>)
    /\ UNCHANGED <<embeds, fileVars, writerVars>>

Stat ==
    /\ call = NoCall
    /\ \E p \in LookupPaths :
          /\ call' = [op |-> "stat", filePath |-> p]
          /\ result' = stat(embeds, p)
    /\ trace' = <<>>
    /\ UNCHANGED <<embeds, fileVars, writerVars>>

Load ==
    /\ call = NoCall
    /\ \E p \in LookupPaths :
          /\ call' = [op |-> "load", filePath |-> p]
          /\ result' = load(embeds, p)
          /\ trace' = IF load(embeds, p).kind = "file" THEN <<"newFile">> ELSE <<>>
    /\ UNCHANGED <<embeds, fileVars, writerVars>>

Get ==
    /\ call = NoCall
    /\ \E p \in LookupPaths :
          /\ call' = [op |-> "get", filePath |-> p]
          /\ result' = get(embeds, p)
          /\ trace' = IF get(embeds, p).kind = "file" THEN <<"newFile">> ELSE <<>>
    /\ UNCHANGED <<embeds, fileVars, writerVars>>

NextServe == ServeDir \/ ServeFile \/ Stat \/ Load \/ Get

-----------------------------------------------------------------------------
(* One File instance and the bytes()/text() calls on it.  A call runs to   *)
(* its first await in one step; what follows the await is a later step,    *)
(* and steps of other calls may come in between.                           *)

\* How many calls are started on the instance.
MaxCalls == 3

Callers == {"c1", "c2"}

\* A buffer of `runs` runs of `runLen` equal bytes, the values alternating.
Alternating(runs, runLen) == [i \in 1..(runs * runLen) |-> ((i - 1) \div runLen) % 2]

BufferLens == {0, 1, 2, 3, 4, 89, 90, 91, 219, 220, 221, 300}

Buffers ==
    {Rep(n, v) : n \in BufferLens, v \in {0, 65, 255}}
        \cup {Alternating(40, 8), Alternating(2, 110), Alternating(3, 80),
              <<255, 254, 253, 0, 1, 2, 127, 128>>, <<72, 105>>}

IdleCall == [kind |-> "none", pc |-> "idle", local |-> <<>>, ret |-> <<>>]

NoContents == [bytes |-> <<>>, compression |-> None]

InitFile ==
    /\ fsrc \in Buffers
    /\ fmeta = <<>>
    /\ fcontents = NoContents
    /\ fcachedText = <<>>
    /\ fcalls = [c \in Callers |-> IdleCall]
    /\ fdecomp = 0
    /\ fstarted = 0

\* The generated module of fsrc is imported and handed to new File(meta).
NewFile ==
    /\ fmeta = <<>>
    /\ fmeta' = <<EmitMeta(fsrc)>>
    /\ fcontents' = NewFileContents(fmeta'[1])
    /\ UNCHANGED <<fsrc, fcachedText, fcalls, fdecomp, fstarted, serveVars, writerVars>>

CanStart(c) ==
    /\ fmeta # <<>>
    /\ fcalls[c].pc \in {"idle", "done"}
    /\ fstarted < MaxCalls

\* bytes() up to `await decompress(...)`, or to its return when nothing is
\* compressed.
BytesEntry(kind, afterPc) ==
    IF fcontents.compression # None
    THEN [kind |-> kind, pc |-> "decompressing", local |-> fcontents.bytes, ret |-> <<>>]
    ELSE [kind |-> kind, pc |-> afterPc, local |-> fcontents.bytes,
          ret |-> IF afterPc = "done" THEN fcontents.bytes ELSE <<>>]

CallBytes(c) ==
    /\ CanStart(c)
    /\ fcalls' = [fcalls EXCEPT ![c] = BytesEntry("bytes", "done")]
    /\ fdecomp' = IF fcontents.compression # None THEN fdecomp + 1 ELSE fdecomp
    /\ fstarted' = fstarted + 1
    /\ UNCHANGED <<fsrc, fmeta, fcontents, fcachedText, serveVars, writerVars>>

\* text(): returns the cached text, or calls bytes() and awaits it.
CallText(c) ==
    /\ CanStart(c)
    /\ IF fcachedText # <<>>
       THEN /\ fcalls' = [fcalls EXCEPT ![c] =
                    [kind |-> "text", pc |-> "done", local |-> <<>>, ret |-> fcachedText[1]]]
            /\ UNCHANGED fdecomp
       ELSE /\ fcalls' = [fcalls EXCEPT ![c] = BytesEntry("text", "awaitBytes")]
            /\ fdecomp' = IF fcontents.compression # None THEN fdecomp + 1 ELSE fdecomp
    /\ fstarted' = fstarted + 1
    /\ UNCHANGED <<fsrc, fmeta, fcontents, fcachedText, serveVars, writerVars>>

\* decompress() resolves: bytes() stores the result and returns it.
DecompressDone(c) ==
    /\ fcalls[c].pc = "decompressing"
    /\ LET bytes == decompress(fcalls[c].local)
       IN  /\ fcontents' = [bytes |-> bytes, compression |-> None]
           /\ fcalls' = [fcalls EXCEPT ![c] =
                   IF fcalls[c].kind = "bytes"
                   THEN [@ EXCEPT !.pc = "done", !.local = bytes, !.ret = bytes]
                   ELSE [@ EXCEPT !.pc = "awaitBytes", !.local = bytes]]
    /\ UNCHANGED <<fsrc, fmeta, fcachedText, fdecomp, fstarted, serveVars, writerVars>>

\* text() resumes after `await this.bytes()`: decodes, caches, returns.
TextResume(c) ==
    /\ fcalls[c].pc = "awaitBytes"
    /\ fcachedText' = <<TextDecode(fcalls[c].local)>>
    /\ fcalls' = [fcalls EXCEPT ![c] =
            [@ EXCEPT !.pc = "done", !.ret = TextDecode(fcalls[c].local)]]
    /\ UNCHANGED <<fsrc, fmeta, fcontents, fdecomp, fstarted, serveVars, writerVars>>

NextFile ==
    \/ NewFile
    \/ \E c \in Callers : CallBytes(c)
    \/ \E c \in Callers : CallText(c)
    \/ \E c \in Callers : DecompressDone(c)
    \/ \E c \in Callers : TextResume(c)

-----------------------------------------------------------------------------
(* EmbedWriter.  The writer's paths are sequences of single characters.    *)

SPACE == " "
UNDERSCORE == "_"

\* replaceAll(/[ ]+/g, "_"): every run of spaces becomes one underscore.
RECURSIVE CollapseSpaces(_)
CollapseSpaces(p) ==
    IF p = <<>> THEN <<>>
    ELSE IF Head(p) = SPACE
         THEN IF Len(p) > 1 /\ p[2] = SPACE THEN CollapseSpaces(Tail(p))
              ELSE <<UNDERSCORE>> \o CollapseSpaces(Tail(p))
    ELSE <<Head(p)>> \o CollapseSpaces(Tail(p))

DeclSuffix == <<DOT, "d", DOT, "t", "s">>
DeclEscaped == <<DOT, "d", UNDERSCORE, "t", "s">>

\* replaceAll(".d.ts", ".d_ts")
RECURSIVE EscapeDecl(_)
EscapeDecl(p) ==
    IF p = <<>> THEN <<>>
    ELSE IF StartsWith(p, DeclSuffix)
         THEN DeclEscaped \o EscapeDecl(SubSeq(p, Len(DeclSuffix) + 1, Len(p)))
    ELSE <<Head(p)>> \o EscapeDecl(Tail(p))

\* The while loop of parentChild: dirname until the child is no longer.
RECURSIVE ClimbTo(_, _)
ClimbTo(child, n) == IF StrLen(child) > n THEN ClimbTo(dirname(child), n) ELSE child

\* A variant of parentChild that takes a path for its own child.
parentChildOrSelf(parent, child) ==
    LET Climb(pn, cn) ==
            IF StrLen(pn) > StrLen(cn) THEN FALSE
            ELSE ClimbTo(cn, StrLen(pn)) = pn
    IN  Climb(posixNormalize(parent), posixNormalize(child))

\* parentChild(parent, child), both absolute.
parentChild(parent, child) ==
    LET Climb(pn, cn) ==
            IF StrLen(pn) >= StrLen(cn) THEN FALSE
            ELSE ClimbTo(cn, StrLen(pn)) = pn
    IN  Climb(posixNormalize(parent), posixNormalize(child))

\* The generated module's name: the normalized relative path, its base
\* prefixed with "_" and suffixed with ".ts".
NormalizedName(rel) ==
    LET Named(parts) == join(parts.dir, <<UNDERSCORE>> \o parts.base \o <<DOT, "t", "s">>)
    IN  Named(parse(EscapeDecl(CollapseSpaces(rel))))

\* The FilePaths record #addFile builds for an input it accepts.
FilePathsOf(dest, filePath) ==
    LET Paths(rel, normalized) ==
            [original |-> filePath, relative |-> rel,
             import |-> <<DOT, SEP>> \o normalized,
             onDisk |-> join(dest, normalized)]
        Normalized(rel) == Paths(rel, NormalizedName(rel))
    IN  Normalized(relative(dest, resolve(dest, filePath)))

\* An entry of the #files map: the record, and its place in the map's
\* insertion order.
Placed(paths, order) ==
    [original |-> paths.original, relative |-> paths.relative, import |-> paths.import,
     onDisk |-> paths.onDisk, order |-> order]

\* A variant of #addFile whose collision error names the new input only.
addFileNamingNew(dest, table, filePath) ==
    LET Add(paths, existing) ==
            IF existing # {}
            THEN [ok |-> FALSE, error |-> "NameCollision",
                  named |-> {paths.original}, table |-> table]
            ELSE [ok |-> TRUE, paths |-> paths,
                  table |-> table \cup {Placed(paths, Cardinality(table) + 1)}]
        Lookup(paths) == Add(paths, {f \in table : f.onDisk = paths.onDisk})
    IN  IF ~parentChild(dest, resolve(dest, filePath))
        THEN [ok |-> FALSE, error |-> "UnsafeOutputPath", named |-> {}, table |-> table]
        ELSE Lookup(FilePathsOf(dest, filePath))

\* #addFile(filePath) on the table `table`: the returned record and the new
\* table, or the error thrown (the table is then as it was).
addFile(dest, table, filePath) ==
    LET Add(paths, existing) ==
            IF existing # {}
            THEN [ok |-> FALSE, error |-> "NameCollision",
                  named |-> {f.original : f \in existing} \cup {paths.original},
                  table |-> table]
            ELSE [ok |-> TRUE, paths |-> paths,
                  table |-> table \cup {Placed(paths, Cardinality(table) + 1)}]
        Lookup(paths) == Add(paths, {f \in table : f.onDisk = paths.onDisk})
    IN  IF ~parentChild(dest, resolve(dest, filePath))
        THEN [ok |-> FALSE, error |-> "UnsafeOutputPath", named |-> {}, table |-> table]
        ELSE Lookup(FilePathsOf(dest, filePath))

\* UTF-16 code units of the characters the writer's paths use.
CharCode(c) ==
    CASE c = SPACE -> 32
      [] c = DOT -> 46
      [] c = SEP -> 47
      [] c = UNDERSCORE -> 95
      [] c = "a" -> 97
      [] c = "b" -> 98
      [] c = "d" -> 100
      [] c = "i" -> 105
      [] c = "o" -> 111
      [] c = "r" -> 114
      [] c = "s" -> 115
      [] c = "t" -> 116
      [] c = "x" -> 120

\* a < b for strings.
RECURSIVE StrLess(_, _)
StrLess(a, b) ==
    IF b = <<>> THEN FALSE
    ELSE IF a = <<>> THEN TRUE
    ELSE IF Head(a) = Head(b) THEN StrLess(Tail(a), Tail(b))
    ELSE CharCode(Head(a)) < CharCode(Head(b))

\* A variant of the comparison that tells no two entries apart.
byKeyAllEqual(x, y) == 0

\* byKey((it) => it.relative)(x, y)
byKey(x, y) ==
    IF StrLess(x.relative, y.relative) THEN -1
    ELSE IF StrLess(y.relative, x.relative) THEN 1
    ELSE 0

\* [...this.#files.values()]: the entries in insertion order.
ValuesInOrder(table) ==
    [i \in 1..Cardinality(table) |-> CHOOSE f \in table : f.order = i]

\* Array.prototype.sort(cmp): a stable sort, here by insertion.
RECURSIVE InsertSorted(_, _)
InsertSorted(sorted, x) ==
    IF sorted = <<>> THEN <<x>>
    ELSE IF byKey(Last(sorted), x) <= 0 THEN Append(sorted, x)
    ELSE Append(InsertSorted(Front(sorted), x), Last(sorted))

RECURSIVE sort(_)
sort(values) ==
    IF values = <<>> THEN <<>>
    ELSE InsertSorted(sort(Front(values)), Last(values))

\* [...this.#files.values()].sort(byKey(...)), as the entries of the registry.
SortedEntries(table) ==
    LET Listing(sorted) ==
            [i \in 1..Len(sorted) |->
                [relative |-> sorted[i].relative, import |-> sorted[i].import]]
    IN  Listing(sort(ValuesInOrder(table)))

\* The properties of the object a generated module exports: what writeFile
\* pushes onto outLines.
EmittedFields(m) ==
    {"size", "encoded"} \cup (IF m.compression # None THEN {"compression"} ELSE {})

\* What is on disk at a path: a generated file module (with the input and
\* the run it was written for), or the registry module.
ModuleFile(filePath, data, run) ==
    LET Module(m) ==
            [kind |-> "module", size |-> m.size, compression |-> m.compression,
             encoded |-> m.encoded, original |-> filePath, data |-> data, run |-> run,
             entries |-> <<>>, fields |-> EmittedFields(m)]
    IN  Module(EmitMeta(data))

DirFile(table, run) ==
    [kind |-> "dir", size |-> 0, compression |-> None, encoded |-> <<>>,
     original |-> <<>>, data |-> <<>>, run |-> run, entries |-> SortedEntries(table),
     fields |-> {}]

DirTs == <<"d", "i", "r", DOT, "t", "s">>

NoFiles == [p \in {} |-> DirFile({}, 0)]

WriteAt(tree, path, content) ==
    [p \in DOMAIN tree \cup {path} |-> IF p = path THEN content ELSE tree[p]]

\* Deno.mkdir(dirname(path), {recursive: true}) fails when a file is in the way.
AncestorIsFile(tree, path) ==
    \E q \in DOMAIN tree.entries : StartsWith(path, q \o <<SEP>>)

\* Deno.writeTextFile(path) fails when a directory is in the way.
IsDirectory(tree, path) ==
    \E q \in DOMAIN tree.entries : StartsWith(q, path \o <<SEP>>)

\* A variant of writeFile that returns normally when the module cannot be
\* written.
writeFileLenient(dest, table, tree, filePath, data, run) ==
    LET Write(added) ==
            IF ~added.ok
            THEN [table |-> table, disk |-> tree,
                  outcome |-> [kind |-> "error", op |-> "writeFile", error |-> added.error,
                               named |-> added.named, original |-> filePath]]
            ELSE IF \/ AncestorIsFile(tree, added.paths.onDisk)
                    \/ IsDirectory(tree, added.paths.onDisk)
            THEN [table |-> added.table, disk |-> tree,
                  outcome |-> [kind |-> "ok", op |-> "writeFile", paths |-> added.paths,
                               original |-> filePath]]
            ELSE [table |-> added.table,
                  disk |-> [exists |-> TRUE,
                            entries |-> WriteAt(tree.entries, added.paths.onDisk,
                                                ModuleFile(filePath, data, run))],
                  outcome |-> [kind |-> "ok", op |-> "writeFile", paths |-> added.paths,
                               original |-> filePath]]
    IN  Write(addFile(dest, table, filePath))

\* writeFile({filePath, data}): the new table and tree, and the returned
\* record or the error thrown.
writeFile(dest, table, tree, filePath, data, run) ==
    LET Write(added) ==
            IF ~added.ok
            THEN [table |-> table, disk |-> tree,
                  outcome |-> [kind |-> "error", op |-> "writeFile", error |-> added.error,
                               named |-> added.named, original |-> filePath]]
            ELSE IF \/ AncestorIsFile(tree, added.paths.onDisk)
                    \/ IsDirectory(tree, added.paths.onDisk)
            THEN [table |-> added.table, disk |-> tree,
                  outcome |-> [kind |-> "error", op |-> "writeFile", error |-> "IOError",
                               named |-> {}, original |-> filePath]]
            ELSE [table |-> added.table,
                  disk |-> [exists |-> TRUE,
                            entries |-> WriteAt(tree.entries, added.paths.onDisk,
                                                ModuleFile(filePath, data, run))],
                  outcome |-> [kind |-> "ok", op |-> "writeFile", paths |-> added.paths,
                               original |-> filePath]]
    IN  Write(addFile(dest, table, filePath))

\* writeDir(): the registry module (the marker file is not modelled).
writeDir(dest, table, tree, run) ==
    LET Write(path) ==
            IF ~tree.exists \/ IsDirectory(tree, path)
            THEN [disk |-> tree,
                  outcome |-> [kind |-> "error", op |-> "writeDir", error |-> "IOError",
                               named |-> {}, original |-> <<>>]]
            ELSE [disk |-> [tree EXCEPT !.entries = WriteAt(@, path, DirFile(table, run))],
                  outcome |-> [kind |-> "ok", op |-> "writeDir", original |-> <<>>]]
    IN  Write(join(dest, DirTs))

\* A variant of clean() that leaves the tree as it is.
cleanDiskKeeping(tree) == tree

\* clean(): the table is cleared; the tree is removed unless absent or empty.
cleanDisk(tree) ==
    IF ~tree.exists \/ DOMAIN tree.entries = {} THEN tree
    ELSE [exists |-> FALSE, entries |-> NoFiles]

-----------------------------------------------------------------------------
(* The writer's inputs.                                                    *)

\* How many entries the walker yields in one run.
MaxFiles == 2

\* How many convert() runs one converter performs.
MaxRuns == 2

\* How many files are written by calling writeFile directly.
MaxDirectWrites == 2

DestDirs == {<<SEP, "d">>, <<SEP, "d", SEP, "s">>, <<SEP>>}

\* The source tree: the regular files under sourceDir, by relative path.
SourceTree ==
    [n \in {<<"a", SPACE, "b">>, <<"a", UNDERSCORE, "b">>, <<"a", SPACE, SPACE, "b">>,
            <<"x">>, <<"s", SEP, "x">>, <<"x", DOT, "d", DOT, "t", "s">>,
            <<"a">>, <<UNDERSCORE, "a", DOT, "t", "s", SEP, "b">>} |->
        CASE n = <<"a", SPACE, "b">> -> Rep(220, 0)
          [] n = <<"a", UNDERSCORE, "b">> -> Rep(219, 0)
          [] n = <<"a", SPACE, SPACE, "b">> -> <<1, 2>>
          [] n = <<"x">> -> <<>>
          [] n = <<"s", SEP, "x">> -> Rep(219, 9)
          [] n = <<"x", DOT, "d", DOT, "t", "s">> -> Alternating(40, 8)
          [] n = <<"a">> -> <<65>>
          [] n = <<UNDERSCORE, "a", DOT, "t", "s", SEP, "b">> -> <<66>>]

\* The orders in which the walker can yield up to n of the files.
WalkOrders(n) ==
    {w \in SeqsUpTo(DOMAIN SourceTree, n) : \A i, j \in 1..Len(w) : i # j => w[i] # w[j]}

\* The paths handed to writeFile directly.
InputPaths ==
    DOMAIN SourceTree \cup
    {<<>>, <<DOT>>, DotDot, <<DOT, DOT, SEP, "x">>, <<SEP, "x">>, <<SEP, "d", SEP, "x">>,
     <<"a", SEP, DOT, DOT, SEP, "x">>, <<"x", SEP>>, <<DOT, SEP, "x">>,
     <<"x", DOT, "d", UNDERSCORE, "t", "s">>, <<"s", SEP, DOT, DOT, SEP, DOT, DOT>>,
     <<"d", "i", "r", DOT, "t", "s", SEP, "x">>}

DirectData == <<7, 7, 7>>

NoOutcome == [kind |-> "none", op |-> "none", original |-> <<>>]

\* What an earlier process left in the destination: a module and a registry.
StaleTree(dest) ==
    [exists |-> TRUE,
     entries |-> WriteAt(WriteAt(NoFiles, join(dest, <<UNDERSCORE, "o", DOT, "t", "s">>),
                                 ModuleFile(<<"o">>, <<1>>, 0)),
                         join(dest, DirTs),
                         DirFile({Placed(FilePathsOf(dest, <<"o">>), 1)}, 0))]

AbsentTree == [exists |-> FALSE, entries |-> NoFiles]

-----------------------------------------------------------------------------
(* StaticConverter and EmbedWriter as a state machine.                     *)

InitWriter ==
    /\ destDir \in DestDirs
    /\ files = {}
    /\ disk \in {AbsentTree, StaleTree(destDir)}
    /\ wpc = "idle"
    /\ pending = <<>>
    /\ wrun = 0
    /\ wlast = NoOutcome

Resting == wpc \in {"idle", "done", "failed"}

\* clean()
Clean ==
    /\ Resting
    /\ files' = {}
    /\ disk' = cleanDisk(disk)
    /\ wlast' = [kind |-> "ok", op |-> "clean", original |-> <<>>]
    /\ UNCHANGED <<destDir, wpc, pending, wrun, serveVars, fileVars>>

\* convert(), up to its loop: clean(), #mkdirs(), and the walker starts.
ConvertStart ==
    /\ Resting
    /\ wrun < MaxRuns
    /\ files' = {}
    /\ disk' = [cleanDisk(disk) EXCEPT !.exists = TRUE]
    /\ \E entries \in WalkOrders(MaxFiles) : pending' = entries
    /\ wpc' = "converting"
    /\ wrun' = wrun + 1
    /\ wlast' = [kind |-> "ok", op |-> "convertStart", original |-> <<>>]
    /\ UNCHANGED <<destDir, serveVars, fileVars>>

\* One turn of convert()'s loop: #convertFile(entry.name).  An error ends
\* convert().
ConvertFile ==
    /\ wpc = "converting"
    /\ pending # <<>>
    /\ LET Apply(w) ==
               /\ files' = w.table
               /\ disk' = w.disk
               /\ wlast' = w.outcome
               /\ IF w.outcome.kind = "ok"
                  THEN pending' = Tail(pending) /\ wpc' = "converting"
                  ELSE pending' = <<>> /\ wpc' = "failed"
       IN  Apply(writeFile(destDir, files, disk, Head(pending), SourceTree[Head(pending)],
                           wrun))
    /\ UNCHANGED <<destDir, wrun, serveVars, fileVars>>

\* The end of convert(): writeDir().
ConvertWriteDir ==
    /\ wpc = "converting"
    /\ pending = <<>>
    /\ LET Apply(w) ==
               /\ disk' = w.disk
               /\ wlast' = w.outcome
               /\ wpc' = IF w.outcome.kind = "ok" THEN "done" ELSE "failed"
       IN  Apply(writeDir(destDir, files, disk, wrun))
    /\ UNCHANGED <<destDir, files, pending, wrun, serveVars, fileVars>>

\* writeFile called on the writer directly, outside convert().
WriteFile ==
    /\ wpc = "idle"
    /\ wrun = 0
    /\ Cardinality(files) < MaxDirectWrites
    /\ \E filePath \in InputPaths :
          LET Apply(w) ==
                  /\ files' = w.table
                  /\ disk' = w.disk
                  /\ wlast' = w.outcome
          IN  Apply(writeFile(destDir, files, disk, filePath, DirectData, wrun))
    /\ UNCHANGED <<destDir, wpc, pending, wrun, serveVars, fileVars>>

NextWriter == Clean \/ ConvertStart \/ ConvertFile \/ ConvertWriteDir \/ WriteFile

-----------------------------------------------------------------------------
(* The specifications: the runtime, one File instance, the writer.         *)

IdleServe == embeds = RegistryPlain /\ call = NoCall /\ result = Null /\ trace = <<>>

IdleFile ==
    /\ fsrc = <<>>
    /\ fmeta = <<>>
    /\ fcontents = NoContents
    /\ fcachedText = <<>>
    /\ fcalls = [c \in Callers |-> IdleCall]
    /\ fdecomp = 0
    /\ fstarted = 0

IdleWriter ==
    /\ destDir = <<SEP, "d">>
    /\ files = {}
    /\ disk = AbsentTree
    /\ wpc = "idle"
    /\ pending = <<>>
    /\ wrun = 0
    /\ wlast = NoOutcome

InitSpecServe == InitServe /\ IdleFile /\ IdleWriter

InitSpecFile == IdleServe /\ InitFile /\ IdleWriter

InitSpecWriter == IdleServe /\ IdleFile /\ InitWriter

SpecServe == InitSpecServe /\ [][NextServe]_vars

SpecFile == InitSpecFile /\ [][NextFile]_vars

SpecWriter == InitSpecWriter /\ [][NextWriter]_vars

-----------------------------------------------------------------------------
(* Properties of serveFile's conditional handling (under SpecServe).       *)

\* serveFile was called for a key of the registry.
ServedFile == call.op = "serveFile" /\ call.filePath \in DOMAIN embeds

\* The record serveFile works with, and the file's content.
ServedMeta == embeds[call.filePath]

\* A 304 with an empty body; a 200 whose body is the whole file.
IsNotModified == result.status = 304 /\ result.bodyKind = "null" /\ result.body = <<>>

IsFullBody ==
    /\ result.status = 200
    /\ result.bodyKind = "bytes"
    /\ result.body = FileData[call.filePath]

\* The if-none-match value matches the stored tag: "*", or one of its tags
\* is the stored one, weak or strong.
MatchesStored(inm, eTag) ==
    \/ inm.kind = "star"
    \/ inm.kind = "list" /\ \E t \in inm.tags : t.tag = eTag.tag

OnlyModifiedSince ==
    /\ ServedFile
    /\ ServedMeta.mtime # <<>>
    /\ call.req.inm.kind = "absent"
    /\ call.req.ims.kind = "date"

\* C2, as the code has it: the response is 304 when the if-modified-since
\* time is strictly after (stored mtime - 1000 ms), and 200 with the full
\* body when it is at or before (stored mtime - 1000 ms).
ModifiedSinceStrictlyAfter ==
    OnlyModifiedSince
        => IF call.req.ims.ms > ServedMeta.mtime[1] - 1000 THEN IsNotModified
           ELSE IsFullBody

\* The if-modified-since time is one millisecond after (mtime - 1000 ms),
\* and the answer was 304.
ModifiedSinceStrictlyAfterSeen ==
    /\ OnlyModifiedSince
    /\ call.req.ims.ms = ServedMeta.mtime[1] - 999
    /\ result.status = 304

\* C2, as stated: 304 when the if-modified-since time is at or after
\* (stored mtime - 1000 ms), 200 with the full body when strictly before.
ModifiedSinceAtOrAfter ==
    OnlyModifiedSince
        => IF call.req.ims.ms >= ServedMeta.mtime[1] - 1000 THEN IsNotModified
           ELSE IsFullBody

-----------------------------------------------------------------------------
(* Properties of serveDir (under SpecServe).                               *)

\* serveDir was called with a path that decodes and with extra headers that
\* Headers accepts, and what the path decodes and normalizes to.
ServedDir ==
    /\ call.op = "serveDir"
    /\ ~Malformed(call.req.path)
    /\ ~HeadersRejected(call.opts.headers)

DecodedPath == decodeURIComponent(call.req.path)

NormalizedPath == posixNormalize(DecodedPath)

IsRedirectTo(location) ==
    /\ result.status = 301
    /\ "location" \in DOMAIN result.headers
    /\ result.headers["location"] = <<location>>

\* The configured urlRoot does not begin the normalized path.
OutsideUrlRoot ==
    /\ call.opts.urlRoot # <<>>
    /\ ~ /\ Len(NormalizedPath) > Len(call.opts.urlRoot)
         /\ NormalizedPath[1] = SEP
         /\ \A i \in 1..Len(call.opts.urlRoot) : NormalizedPath[i + 1] = call.opts.urlRoot[i]

\* C3, as the code has it: for a request whose decoded path differs from
\* its normalized form, the response is a 404 when a urlRoot is configured
\* that does not begin the normalized path, and otherwise a 301 whose
\* Location is the normalized path; it is never a 200.
RedirectUnlessOutsideUrlRoot ==
    (ServedDir /\ DecodedPath # NormalizedPath)
        => IF OutsideUrlRoot THEN result.status = 404
           ELSE IsRedirectTo(NormalizedPath)

\* A path that normalization changes was redirected with a urlRoot configured.
RedirectUnlessOutsideUrlRootSeen ==
    /\ ServedDir
    /\ DecodedPath # NormalizedPath
    /\ call.opts.urlRoot # <<>>
    /\ IsRedirectTo(NormalizedPath)

\* C3, as stated: for every request whose decoded path differs from its
\* normalized form the response is a 301 whose Location is the normalized
\* path, for every value of the options.
AlwaysRedirect ==
    (ServedDir /\ DecodedPath # NormalizedPath) => IsRedirectTo(NormalizedPath)

\* The path serveDir looks up, for a request that reaches the lookup.
ReachesLookup == ServedDir /\ DecodedPath = NormalizedPath /\ ~OutsideUrlRoot

NoValidatorNamed(headers) ==
    \A i \in 1..Len(headers) : headers[i][1] \notin {"etag", "last-modified"}

\* C8: in serveDir, for every request whose normalized lookup key is not
\* one of the keys list() returns, the response is 404 and carries no etag
\* and no last-modified header, when the caller supplies no extra headers
\* of those names.
UnknownKeyIsNotFound ==
    (/\ ReachesLookup
     /\ LookupPath(NormalizedPath, call.opts) \notin list(embeds)
     /\ NoValidatorNamed(call.opts.headers))
        => /\ result.status = 404
           /\ "etag" \notin DOMAIN result.headers
           /\ "last-modified" \notin DOMAIN result.headers

-----------------------------------------------------------------------------
(* Properties of the store's lookups (under SpecServe).                    *)

\* C7: stat, load and get never throw for a path that is not a key of the
\* registry: each of the three returns the not-found value (null, or the
\* equally falsy undefined).
LookupsReturnNotFound ==
    (call.op \in {"stat", "load", "get"} /\ call.filePath \notin list(embeds))
        => result \in {Null, Undefined}

-----------------------------------------------------------------------------
(* Properties of a File instance (under SpecFile).                         *)

\* C4: on one File instance decompression runs at most once over every
\* interleaving of bytes() and text() calls, and every call returns the
\* same content: the bytes the record was generated from, or their text.
DecompressesOnce ==
    /\ fdecomp <= 1
    /\ \A c \in Callers :
          fcalls[c].pc = "done"
              => fcalls[c].ret = IF fcalls[c].kind = "bytes" THEN fsrc
                                 ELSE TextDecode(fsrc)

\* C10: for every buffer b, the record writeFile emits for b, read back
\* through new File(meta).bytes(), yields exactly b, wrapped or not.
RoundTrip ==
    \A c \in Callers :
        (fcalls[c].kind = "bytes" /\ fcalls[c].pc = "done") => fcalls[c].ret = fsrc

\* bytes() returned the buffer of a record whose text is compressed and
\* spans more than one line.
RoundTripSeen ==
    /\ fmeta # <<>>
    /\ fmeta[1].compression = "gzip"
    /\ \E i \in 2..(Len(fmeta[1].encoded) - 1) : fmeta[1].encoded[i] = NL
    /\ \E c \in Callers :
          fcalls[c].kind = "bytes" /\ fcalls[c].pc = "done" /\ fcalls[c].ret = fsrc

-----------------------------------------------------------------------------
(* Properties of the writer (under SpecWriter).                            *)

\* The generated file modules on disk.
Modules == {p \in DOMAIN disk.entries : disk.entries[p].kind = "module"}

\* What gzip saves on a buffer.
GainOf(data) == Len(data) - Len(compress(data))

\* C9: writeFile stores the compressed bytes and emits the compression tag
\* exactly when rawLength - compressedLength >= 200, and otherwise stores
\* the raw bytes with no tag; the emitted size is the raw length in both
\* cases.
CompressesFromGain200 ==
    \A p \in Modules :
        /\ disk.entries[p].size = Len(disk.entries[p].data)
        /\ IF GainOf(disk.entries[p].data) >= 200
           THEN /\ disk.entries[p].compression = "gzip"
                /\ decodeBase64(disk.entries[p].encoded) = compress(disk.entries[p].data)
           ELSE /\ disk.entries[p].compression = None
                /\ decodeBase64(disk.entries[p].encoded) = disk.entries[p].data

\* One module was written with a gain of exactly 200 and is compressed,
\* another with a gain of 199 and is not.
CompressesFromGain200Seen ==
    \E p, q \in Modules :
        /\ GainOf(disk.entries[p].data) = 200
        /\ disk.entries[p].compression = "gzip"
        /\ GainOf(disk.entries[q].data) = 199
        /\ disk.entries[q].compression = None

\* convert() ended in writeFile's collision error.
CollisionEndedRun ==
    /\ wpc = "failed"
    /\ wlast.kind = "error"
    /\ wlast.error = "NameCollision"

\* Where the input whose writeFile failed would have been written.
CollisionPath == FilePathsOf(destDir, wlast.original).onDisk

\* C5, as the code has it: when two distinct inputs of one conversion run
\* normalize to the same on-disk path, writeFile fails for the second with
\* an error that names both original paths; the second has no module
\* written and no entry in the table, the module of the first stays on
\* disk, and the run ends without a registry module.
CollisionKeepsFirst ==
    CollisionEndedRun
        => \E first \in wlast.named :
            /\ first # wlast.original
            /\ wlast.named = {first, wlast.original}
            /\ CollisionPath \in Modules
            /\ disk.entries[CollisionPath].original = first
            /\ disk.entries[CollisionPath].data = SourceTree[first]
            /\ disk.entries[CollisionPath].run = wrun
            /\ \A m \in Modules : disk.entries[m].original # wlast.original
            /\ \A f \in files : f.original # wlast.original
            /\ \E f \in files : f.original = first /\ f.onDisk = CollisionPath
            /\ join(destDir, DirTs) \notin DOMAIN disk.entries

\* "a b" was converted, then "a_b" collided with it.
CollisionKeepsFirstSeen ==
    /\ CollisionEndedRun
    /\ wlast.original = <<"a", UNDERSCORE, "b">>
    /\ wlast.named = {<<"a", SPACE, "b">>, <<"a", UNDERSCORE, "b">>}

\* C5, as stated: writeFile fails with an error that names both original
\* paths, and after the failure neither of the two inputs has a generated
\* module on disk.
CollisionWritesNeither ==
    CollisionEndedRun
        => /\ Cardinality(wlast.named) = 2
           /\ wlast.original \in wlast.named
           /\ \A m \in Modules : disk.entries[m].original \notin wlast.named

\* A path strictly inside dest: a proper descendant, given without "." or
\* ".." segments.
StrictlyInside(dest, p) ==
    /\ Len(p) > Len(dest)
    /\ SubSeq(p, 1, Len(dest)) = dest
    /\ dest = <<SEP>> \/ p[Len(dest) + 1] = SEP
    /\ p[Len(p)] # SEP
    /\ \A i \in 1..Len(Segments(p)) : Segments(p)[i] \notin {<<DOT>>, DotDot}

\* C6: for every input path given to #addFile, a returned record has onDisk
\* strictly inside destDir, and an input that resolves outside or onto
\* destDir is rejected with an error and leaves the placement table
\* unchanged.
PlacementInsideDest ==
    [][wlast'.op = "writeFile"
         => /\ \A f \in files' : StrictlyInside(destDir, f.onDisk)
            /\ wlast'.kind = "ok" => StrictlyInside(destDir, wlast'.paths.onDisk)
            /\ ~StrictlyInside(destDir, resolve(destDir, wlast'.original))
                  => /\ wlast'.kind = "error"
                     /\ wlast'.error = "UnsafeOutputPath"
                     /\ files' = files]_vars

\* "../x" was rejected by a writer that had placed a file before.
PlacementInsideDestSeen ==
    /\ wlast.kind = "error"
    /\ wlast.error = "UnsafeOutputPath"
    /\ wlast.original = <<DOT, DOT, SEP, "x">>
    /\ files # {}

\* writeFile returned, and the module it wrote.
WroteModule == wlast.kind = "ok" /\ wlast.op = "writeFile"

WrittenModule == disk.entries[wlast.paths.onDisk]

\* C11: every generated file module written by writeFile exports a FileMeta
\* that includes an eTag string, in addition to size and encoded (and
\* compression when the compressed bytes were selected).
ModuleExportsETag ==
    WroteModule
        => /\ {"size", "encoded", "eTag"} \subseteq WrittenModule.fields
           /\ WrittenModule.compression # None => "compression" \in WrittenModule.fields

-----------------------------------------------------------------------------
(* Directory requests (under SpecServe).                                   *)

\* A request that reaches the lookup with a normalized path ending in "/",
\* and the key of the index file under it.
DirectoryRequest == ReachesLookup /\ EndsWith(NormalizedPath, <<SEP>>)

IndexKey ==
    join(IF call.opts.fsRoot # <<>> THEN call.opts.fsRoot ELSE <<DOT>>,
         ReplaceFirst(NormalizedPath, call.opts.urlRoot) \o IndexHtml)

\* A conditional header of the request applies to the record: if-none-match
\* matches its tag, or, without if-none-match, if-modified-since is after
\* (mtime - 1000 ms).
ConditionalApplies(req, meta) ==
    \/ /\ req.inm.kind # "absent"
       /\ meta.eTag.tag # ""
       /\ MatchesStored(req.inm, meta.eTag)
    \/ /\ req.inm.kind = "absent"
       /\ meta.mtime # <<>>
       /\ req.ims.kind = "date"
       /\ req.ims.ms > meta.mtime[1] - 1000

\* C12: a request for "/" or for any normalized path ending in "/" is looked
\* up under that path with "index.html" appended; when that key exists in
\* the store and no conditional header applies, the response is 200 with
\* that file's bytes as body and the content-type of the .html extension;
\* when the key does not exist the response is 404.
DirectoryServesIndex ==
    DirectoryRequest
        => IF IndexKey \in list(embeds)
           THEN ~ConditionalApplies(call.req, embeds[IndexKey])
                    => /\ result.status = 200
                       /\ result.bodyKind = "bytes"
                       /\ result.body = FileData[IndexKey]
                       /\ "content-type" \in DOMAIN result.headers
                       /\ Head(result.headers["content-type"]) = "text/html; charset=UTF-8"
           ELSE result.status = 404

\* "/pub/" was answered with the bytes of pub/index.html, which differ from
\* those of index.html.
DirectoryServesIndexSeen ==
    /\ DirectoryRequest
    /\ NormalizedPath = <<SEP, "pub", SEP>>
    /\ IndexKey = <<"pub", SEP, "index", DOT, "html">>
    /\ result.status = 200
    /\ result.body = <<60, 62>>

-----------------------------------------------------------------------------
(* Errors in serveDir (under SpecServe).                                   *)

\* The path of the request reaches the lookup; the path is redirected.
PathReachesLookup ==
    /\ ~Malformed(call.req.path)
    /\ DecodedPath = NormalizedPath
    /\ ~OutsideUrlRoot

PathIsRedirected ==
    /\ ~Malformed(call.req.path)
    /\ DecodedPath # NormalizedPath
    /\ ~OutsideUrlRoot

\* The status that answers what the lookup raised, if it raised.
AnswersRaised(st) ==
    st.kind = "throw" => result.status = IF st.error = "NotFound" THEN 404 ELSE 500

\* Each error raised while the response is built has its status.
ErrorsHaveTheirStatus ==
    /\ Malformed(call.req.path) => result.status = 400
    /\ PathReachesLookup => AnswersRaised(stat(embeds, LookupPath(NormalizedPath, call.opts)))

-----------------------------------------------------------------------------
(* urlRoot (under SpecServe).                                              *)

\* The segments of the normalized path after the leading "/": urlRoot is
\* the first of them, and the path made of the ones after it.
UrlRootLeads ==
    /\ Len(Segments(NormalizedPath)) >= 2
    /\ Segments(NormalizedPath)[2] = call.opts.urlRoot

PathAfterUrlRoot ==
    <<SEP>> \o JoinSegs(SubSeq(Segments(NormalizedPath), 3, Len(Segments(NormalizedPath))))

KeyAfterUrlRoot ==
    join(IF call.opts.fsRoot # <<>> THEN call.opts.fsRoot ELSE <<DOT>>,
         IF EndsWith(PathAfterUrlRoot, <<SEP>>) THEN PathAfterUrlRoot \o IndexHtml
         ELSE PathAfterUrlRoot)

\* The response is that of a lookup of key: the file or a 304 for a key of
\* the store, 404 for a path that names nothing (nothing is said of the
\* names every object inherits and of importers that reject).
AnswersLookupOf(key) ==
    IF key \in list(embeds) \ DOMAIN ImporterRejects
    THEN IF ConditionalApplies(call.req, embeds[key]) THEN result.status = 304
         ELSE result.status = 200 /\ result.body = FileData[key]
    ELSE key \notin InheritedProps \cup DOMAIN ImporterRejects => result.status = 404

\* C14: with a urlRoot P configured, serveDir answers 404 for every request
\* whose normalized path does not have P as its leading path segment, and
\* for every other request (that is not redirected) performs the lookup on
\* the path with that leading segment removed.
UrlRootIsLeadingSegment ==
    (ServedDir /\ call.opts.urlRoot # <<>>)
        => IF ~UrlRootLeads THEN result.status = 404
           ELSE DecodedPath = NormalizedPath => AnswersLookupOf(KeyAfterUrlRoot)

-----------------------------------------------------------------------------
(* The headers serveDir adds (under SpecServe).                            *)

\* The headers of the response before serveDir adds any: those of the same
\* request served without CORS and without extra headers.
PlainHeaders ==
    serveDir(embeds, call.req,
             [call.opts EXCEPT !.enableCors = FALSE, !.headers = <<>>]).resp.headers

\* The values a list of (name, value) pairs gives to name n, in order.
ValuesOf(pairs, n) ==
    LET Named(p) == p[1] = n
        ValueAt(sel) == [i \in 1..Len(sel) |-> sel[i][2]]
    IN  ValueAt(SelectSeq(pairs, Named))

NamesOf(pairs) == {pairs[i][1] : i \in 1..Len(pairs)}

AddedHeaders == (IF call.opts.enableCors THEN CorsHeaders ELSE <<>>) \o call.opts.headers

\* Every header of the response holds the values it had, followed by the
\* added ones of its name.
HeadersExtend(plain) ==
    /\ DOMAIN result.headers = DOMAIN plain \cup NamesOf(AddedHeaders)
    /\ \A n \in DOMAIN result.headers :
          result.headers[n] =
              (IF n \in DOMAIN plain THEN plain[n] ELSE <<>>) \o ValuesOf(AddedHeaders, n)

-----------------------------------------------------------------------------
(* When a File is constructed (under SpecServe).  trace lists, in order,   *)
(* the calls of stat and get and the File constructions and                *)
(* decompressions of one operation.                                        *)

Happened(event) == \E i \in 1..Len(trace) : trace[i] = event

\* Every occurrence of event in trace has an occurrence of earlier before it.
Follows(event, earlier) ==
    \A i \in 1..Len(trace) :
        trace[i] = event => \E j \in 1..(i - 1) : trace[j] = earlier

\* A request was served: by serveDir, or by serveFile.
ServedRequest == call.op \in {"serveDir", "serveFile"}

\* C16: while serving one request, a File is constructed only by get, after
\* stat has found the record (or the caller handed serveFile the record)
\* and the conditional check has not produced a 304: for every request
\* answered 304, 404, 400 or 301 no File is constructed and no
\* decompression runs, decompression runs only on a constructed File, and
\* stat itself never constructs a File.
FileOnlyForFullBody ==
    /\ ServedRequest
          => /\ Follows("newFile", "get")
             /\ Follows("decompress", "newFile")
             /\ (call.op = "serveDir" \/ call.optMeta = <<>>) => Follows("get", "stat")
             /\ (result # Thrown /\ result.status \in {301, 304, 400, 404})
                    => ~Happened("newFile") /\ ~Happened("decompress") /\ ~Happened("get")
             /\ (result # Thrown /\ Happened("newFile")) => result.status = 200
    /\ call.op = "stat" => trace = <<>>

\* A 304 was answered by serveDir after stat alone.
FileOnlyForFullBodySeen ==
    /\ call.op = "serveDir"
    /\ result # Thrown
    /\ result.status = 304
    /\ trace = <<"stat">>

-----------------------------------------------------------------------------
(* Successive convert() runs (under SpecWriter).                           *)

OnDisk == DOMAIN disk.entries

-----------------------------------------------------------------------------
(* The registry's listing (under SpecWriter).                              *)

\* writeDir has just written the registry, and its listing.
WroteRegistry == wlast.kind = "ok" /\ wlast.op = "writeDir"

Listing == disk.entries[join(destDir, DirTs)].entries

\* C18: the registry module rendered by writeDir lists its entries in
\* ascending lexicographic order of relativePath, one for each placed file;
\* the listing is therefore the same for every order in which the walker
\* yields the files and writeFile places them.
ListingIsSorted ==
    WroteRegistry
        => /\ \A i, j \in 1..Len(Listing) :
                 i < j => StrLess(Listing[i].relative, Listing[j].relative)
           /\ {Listing[i] : i \in 1..Len(Listing)}
                 = {[relative |-> f.relative, import |-> f.import] : f \in files}

\* Two files were placed in descending order of their relative paths, and
\* the registry lists them.
ListingIsSortedSeen ==
    /\ WroteRegistry
    /\ Len(Listing) = 2
    /\ \E f, g \in files : f.order < g.order /\ StrLess(g.relative, f.relative)

-----------------------------------------------------------------------------
(* The store's operations and its keys (under SpecServe).                  *)

\* C19: for every path p (of an importer that does not reject), stat(p) and
\* get(p) return a record or a File when p is one of the keys list()
\* returns, and return the not-found value (null, or the equally falsy
\* undefined) when it is not, the names every object inherits included.
StoreAgreesWithList ==
    (call.op \in {"stat", "get"} /\ call.filePath \notin DOMAIN ImporterRejects)
        => IF call.filePath \in list(embeds) THEN result.kind \in {"meta", "file"}
           ELSE result \in {Null, Undefined}

-----------------------------------------------------------------------------
(* The registry and the modules of one run (under SpecWriter).             *)

RegistryPath == join(destDir, DirTs)

\* The module an entry of the registry imports.
ImportedBy(entry) == join(destDir, entry.import)

\* C20: whenever the registry module exists on disk during or after a
\* convert() run, the run has completed, every entry of the registry points
\* to a module written in that same run and every module on disk has an
\* entry; a run that a writeFile error ended has no registry and no file
\* left to convert, and while files are left to convert there is no
\* registry.
RegistryMatchesModules ==
    wrun >= 1
        => /\ RegistryPath \in OnDisk
                 => /\ wpc = "done"
                    /\ disk.entries[RegistryPath].run = wrun
                    /\ \A i \in 1..Len(Listing) :
                          /\ ImportedBy(Listing[i]) \in Modules
                          /\ disk.entries[ImportedBy(Listing[i])].run = wrun
                    /\ \A p \in Modules :
                          \E i \in 1..Len(Listing) : ImportedBy(Listing[i]) = p
           /\ wpc = "failed" => RegistryPath \notin OnDisk /\ pending = <<>>
           /\ pending # <<>> => RegistryPath \notin OnDisk

\* A completed run left a registry of two entries and their two modules.
RegistryMatchesModulesSeen ==
    /\ wrun >= 1
    /\ wpc = "done"
    /\ RegistryPath \in OnDisk
    /\ Len(Listing) = 2
    /\ {ImportedBy(Listing[i]) : i \in 1..2} = Modules

====
